---- MODULE Spec2Model ----
(***************************************************************************)
(* Model of src/api/extractor.py: Extractor.update_database (the           *)
(* row-by-row insert loop with its broad except / finally) and             *)
(* Extractor.extract (the async-with around the two document-analysis      *)
(* calls, followed by the flattening of the response into                  *)
(* field name -> {value, confidence} dictionaries).                        *)
(*                                                                         *)
(* Python values are tagged records; a dict is an insertion-ordered        *)
(* sequence of <<key, value>> pairs with distinct keys.  Confidences,      *)
(* floats in the service's response, are modelled as integer percents;     *)
(* the code only passes them through.                                      *)
(***************************************************************************)
EXTENDS Integers, Sequences, FiniteSets, TLC

VARIABLES
    op,                \* which coroutine this run executes
    pc,                \* position of the coroutine
    extracted_values,  \* update_database: the argument
    d,                 \* update_database: index of the current document (outer loop)
    f,                 \* update_database: index of the current entry (inner loop)
    field_name,        \* update_database: the local of that name, Unbound until line 27 binds it
    calls,             \* post2postgres_extract calls issued, in order
    rows,              \* the calls that returned normally (rows written)
    closeCount,        \* number of times database.close() was awaited
    logs,              \* messages printed by update_database
    tryExc,            \* exception raised inside the try block, or NoExc
    exc,               \* exception propagating out of the coroutine, or NoExc
    outcome,           \* "running", "returned" or "raised"
    outstanding,       \* external calls awaited and not yet completed
    history,           \* starts, returns and raises of the external calls, in order
    form_type,         \* extract: the argument
    client,            \* extract: which endpoint the client was built for
    result,            \* extract: the AnalyzeResult the service answers with
    enterCount,        \* extract: times the client's __aenter__ ran
    exitCount,         \* extract: times the client's __aexit__ ran
    idx,               \* extract: documents processed so far
    response_list,     \* extract: the list being built
    returned           \* extract: the value handed to the caller, or NoReturn

vars == <<op, pc, extracted_values, d, f, field_name, calls, rows, closeCount,
          logs, tryExc, exc, outcome, outstanding, history, form_type,
          client, result, enterCount, exitCount, idx, response_list, returned>>

udVars == <<extracted_values, d, f, field_name, calls, rows, closeCount, logs, tryExc>>
exVars == <<form_type, client, result, enterCount, exitCount, idx, response_list, returned>>

(***************************************************************************)
(* Bounds of the inputs.                                                   *)
(***************************************************************************)
\* update_database: documents in extracted_values, and entries over all of them
MaxDocs == 2
MaxEntries == 3
\* extract: documents in the response, and fields over all of them
MaxDocuments == 2
MaxFields == 2

(***************************************************************************)
(* Python values.                                                          *)
(***************************************************************************)
None == [t |-> "none"]
IntV(n) == [t |-> "int", i |-> n]
StrV(s) == [t |-> "str", s |-> s]
ListV(xs) == [t |-> "list", items |-> xs]
DictV(kv) == [t |-> "dict", kv |-> kv]

IsDict(v) == v.t = "dict"
IsList(v) == v.t = "list"

\* key in dict
Has(dict, k) == \E n \in 1..Len(dict.kv) : dict.kv[n][1] = k
\* dict[k], for a key that is present
Item(dict, k) == dict.kv[CHOOSE n \in 1..Len(dict.kv) : dict.kv[n][1] = k][2]
\* dict.get(k)
Get(dict, k) == IF Has(dict, k) THEN Item(dict, k) ELSE None
\* dict[k] = v: an existing key keeps its position
SetItem(kv, k, v) ==
    IF \E n \in 1..Len(kv) : kv[n][1] = k
    THEN [n \in 1..Len(kv) |-> IF kv[n][1] = k THEN <<k, v>> ELSE kv[n]]
    ELSE Append(kv, <<k, v>>)
Keys(kv) == {kv[n][1] : n \in 1..Len(kv)}

\* bool(v)
Truthy(v) ==
    CASE v.t = "none" -> FALSE
      [] v.t = "int"  -> v.i # 0
      [] v.t = "str"  -> v.s # ""
      [] v.t = "list" -> Len(v.items) > 0
      [] OTHER        -> Len(v.kv) > 0
\* a or b
PyOr(a, b) == IF Truthy(a) THEN a ELSE b

Digit == <<"0", "1", "2", "3", "4", "5", "6", "7", "8", "9">>
RECURSIVE IntStr(_)
IntStr(n) == IF n < 10 THEN Digit[n + 1] ELSE IntStr(n \div 10) \o Digit[(n % 10) + 1]

\* repr() and str() of a scalar
ScalarRepr(v) ==
    CASE v.t = "none" -> "None"
      [] v.t = "int"  -> IntStr(v.i)
      [] OTHER        -> "'" \o v.s \o "'"
RECURSIVE JoinRepr(_)
JoinRepr(xs) ==
    IF Len(xs) = 0 THEN ""
    ELSE IF Len(xs) = 1 THEN ScalarRepr(xs[1])
    ELSE ScalarRepr(xs[1]) \o ", " \o JoinRepr(Tail(xs))
\* str(v)
PyStr(v) ==
    CASE v.t = "none" -> "None"
      [] v.t = "int"  -> IntStr(v.i)
      [] v.t = "str"  -> v.s
      [] OTHER        -> "[" \o JoinRepr(v.items) \o "]"

\* json.dumps(v)
ScalarJson(v) ==
    CASE v.t = "none" -> "null"
      [] v.t = "int"  -> IntStr(v.i)
      [] OTHER        -> "\"" \o v.s \o "\""
RECURSIVE JoinJson(_)
JoinJson(xs) ==
    IF Len(xs) = 0 THEN ""
    ELSE IF Len(xs) = 1 THEN ScalarJson(xs[1])
    ELSE ScalarJson(xs[1]) \o ", " \o JoinJson(Tail(xs))
JsonDumps(v) ==
    IF v.t = "list" THEN "[" \o JoinJson(v.items) \o "]" ELSE ScalarJson(v)

Unbound == "<unbound>"
NoExc == "none"
NoReturn == [t |-> "noreturn"]

(***************************************************************************)
(* update_database: inputs.                                                *)
(***************************************************************************)
\* the caller's arguments other than extracted_values
Args == [client_id |-> "client-1", blob_sas_url |-> "https://blob/doc?sas",
         doc_name |-> "w2.pdf", form_type |-> "W2", access_id |-> "access-9"]

\* the shapes of one field_data: a {value, confidence} record as extract builds
\* it, one whose value is a list, one without the 'value' key, and a bare scalar
FieldDatas ==
    { DictV(<< <<"value", IntV(12)>>, <<"confidence", IntV(90)>> >>),
      DictV(<< <<"value", ListV(<<StrV("a"), IntV(1)>>)>>, <<"confidence", IntV(80)>> >>),
      DictV(<< <<"confidence", IntV(70)>> >>),
      StrV("x") }

NameAt(n) == "field_" \o IntStr(n)

\* the dictionaries with n entries, and the elements of extracted_values that
\* hold n entries (None holds none and has no .items())
DictsOfLen(n) == {DictV([k \in 1..n |-> <<NameAt(k), s[k]>>]) : s \in [1..n -> FieldDatas]}
ElementsOfSize(n) == DictsOfLen(n) \cup (IF n = 0 THEN {None} ELSE {})

RECURSIVE Lists(_, _)
Lists(k, budget) ==
    IF k = 0 THEN {<<>>}
    ELSE UNION {{<<e>> \o rest : e \in ElementsOfSize(n), rest \in Lists(k - 1, budget - n)}
                : n \in 0..budget}

ExtractedValuesInputs ==
    {None} \cup {ListV(xs) : xs \in UNION {Lists(k, MaxEntries) : k \in 0..MaxDocs}}

(***************************************************************************)
(* update_database: lines 23-54.                                           *)
(***************************************************************************)
\* lines 26-27: where the two nested for loops stand at (d, f)
IterState ==
    IF ~IsList(extracted_values) THEN "not_iterable"
    ELSE IF d > Len(extracted_values.items) THEN "exhausted"
    ELSE IF ~IsDict(extracted_values.items[d]) THEN "no_items"
    ELSE IF f > Len(extracted_values.items[d].kv) THEN "next_doc"
    ELSE "field"

CurrentEntry == extracted_values.items[d].kv[f]

\* lines 28-37: field_value and confidence of one field_data, or the exception
Convert(field_data) ==
    LET first ==
            IF IsDict(field_data)
            THEN IF ~Has(field_data, "value") \/ ~Has(field_data, "confidence")
                 THEN [raised |-> "KeyError"]
                 ELSE [raised |-> NoExc,
                       field_value |-> StrV(PyStr(Item(field_data, "value"))),
                       confidence |-> Item(field_data, "confidence")]
            ELSE [raised |-> NoExc,
                  field_value |-> StrV(PyStr(field_data)),
                  confidence |-> None]
    IN  IF first.raised # NoExc THEN first
        ELSE IF IsList(first.field_value)
             \* line 37: a list has no __dict__
             THEN [raised |-> "AttributeError"]
             ELSE first

\* lines 39-49: the keyword arguments of post2postgres_extract
InsertCall(name, conv) ==
    [client_id |-> Args.client_id, doc_url |-> Args.blob_sas_url,
     doc_name |-> Args.doc_name, doc_status |-> "extracted",
     doc_type |-> Args.form_type, field_name |-> name,
     field_value |-> conv.field_value, confidence |-> conv.confidence,
     access_id |-> Args.access_id]

\* line 24
UD_Construct ==
    /\ op = "update_database" /\ pc = "ud_start"
    /\ pc' = "ud_loop"
    /\ UNCHANGED <<op, udVars, exc, outcome, outstanding, history, exVars>>

\* line 26: the inner loop over one dictionary is done, the outer loop advances
UD_NextDoc ==
    /\ pc = "ud_loop" /\ IterState = "next_doc"
    /\ d' = d + 1 /\ f' = 1
    /\ UNCHANGED <<op, pc, extracted_values, field_name, calls, rows, closeCount,
                   logs, tryExc, exc, outcome, outstanding, history, exVars>>

\* line 26: the outer loop is exhausted, the try block ends normally
UD_LoopEnd ==
    /\ pc = "ud_loop" /\ IterState = "exhausted"
    /\ pc' = "ud_finally"
    /\ UNCHANGED <<op, udVars, exc, outcome, outstanding, history, exVars>>

\* lines 26-27: extracted_values is not iterable, or an element has no .items()
UD_IterRaise ==
    /\ pc = "ud_loop" /\ IterState \in {"not_iterable", "no_items"}
    /\ tryExc' = (IF IterState = "not_iterable" THEN "TypeError" ELSE "AttributeError")
    /\ pc' = "ud_except"
    /\ UNCHANGED <<op, extracted_values, d, f, field_name, calls, rows, closeCount,
                   logs, exc, outcome, outstanding, history, exVars>>

\* lines 27-37: field_name is bound, then reading the field raises
UD_FieldRaise ==
    /\ pc = "ud_loop" /\ IterState = "field"
    /\ Convert(CurrentEntry[2]).raised # NoExc
    /\ field_name' = CurrentEntry[1]
    /\ tryExc' = Convert(CurrentEntry[2]).raised
    /\ pc' = "ud_except"
    /\ UNCHANGED <<op, extracted_values, d, f, calls, rows, closeCount,
                   logs, exc, outcome, outstanding, history, exVars>>

\* the insert scheduled without being awaited: the loop goes on at once
UD_InsertStartNotAwaited ==
    /\ pc = "ud_loop" /\ IterState = "field"
    /\ Convert(CurrentEntry[2]).raised = NoExc
    /\ field_name' = CurrentEntry[1]
    /\ calls' = Append(calls, InsertCall(CurrentEntry[1], Convert(CurrentEntry[2])))
    /\ outstanding' = Append(outstanding, "post2postgres_extract")
    /\ history' = Append(history, <<"start", "post2postgres_extract">>)
    /\ f' = f + 1
    /\ UNCHANGED <<op, pc, extracted_values, d, rows, closeCount,
                   logs, tryExc, exc, outcome, exVars>>

\* lines 27-39: field_name is bound and post2postgres_extract is awaited
UD_InsertStart ==
    /\ pc = "ud_loop" /\ IterState = "field"
    /\ Convert(CurrentEntry[2]).raised = NoExc
    /\ field_name' = CurrentEntry[1]
    /\ calls' = Append(calls, InsertCall(CurrentEntry[1], Convert(CurrentEntry[2])))
    /\ outstanding' = Append(outstanding, "post2postgres_extract")
    /\ history' = Append(history, <<"start", "post2postgres_extract">>)
    /\ pc' = "ud_await_insert"
    /\ UNCHANGED <<op, extracted_values, d, f, rows, closeCount,
                   logs, tryExc, exc, outcome, exVars>>

\* the inner loop stepping over the entry after the one just inserted
UD_InsertReturnSkipNext ==
    /\ pc = "ud_await_insert"
    /\ outstanding' = SubSeq(outstanding, 1, Len(outstanding) - 1)
    /\ history' = Append(history, <<"return", "post2postgres_extract">>)
    /\ rows' = Append(rows, calls[Len(calls)])
    /\ logs' = Append(logs, "Last inserted ID for extraction")
    /\ f' = f + 2
    /\ pc' = "ud_loop"
    /\ UNCHANGED <<op, extracted_values, d, field_name, calls, closeCount,
                   tryExc, exc, outcome, exVars>>

\* lines 39-50: the insert returns, its id is printed, the inner loop advances
UD_InsertReturn ==
    /\ pc = "ud_await_insert"
    /\ outstanding' = SubSeq(outstanding, 1, Len(outstanding) - 1)
    /\ history' = Append(history, <<"return", "post2postgres_extract">>)
    /\ rows' = Append(rows, calls[Len(calls)])
    /\ logs' = Append(logs, "Last inserted ID for extraction")
    /\ f' = f + 1
    /\ pc' = "ud_loop"
    /\ UNCHANGED <<op, extracted_values, d, field_name, calls, closeCount,
                   tryExc, exc, outcome, exVars>>

\* a failed insert retried: the loop resumes at the same entry
UD_InsertRaiseRetry ==
    /\ pc = "ud_await_insert"
    /\ outstanding' = SubSeq(outstanding, 1, Len(outstanding) - 1)
    /\ history' = Append(history, <<"raise", "post2postgres_extract">>)
    /\ tryExc' = "DatabaseError"
    /\ pc' = (IF tryExc = NoExc THEN "ud_loop" ELSE "ud_except")
    /\ UNCHANGED <<op, extracted_values, d, f, field_name, calls, rows, closeCount,
                   logs, exc, outcome, exVars>>

\* line 39: the insert raises
UD_InsertRaise ==
    /\ pc = "ud_await_insert"
    /\ outstanding' = SubSeq(outstanding, 1, Len(outstanding) - 1)
    /\ history' = Append(history, <<"raise", "post2postgres_extract">>)
    /\ tryExc' = "DatabaseError"
    /\ pc' = "ud_except"
    /\ UNCHANGED <<op, extracted_values, d, f, field_name, calls, rows, closeCount,
                   logs, exc, outcome, exVars>>

\* close() placed after the try statement instead of in a finally clause: a
\* handler that raises leaves the coroutine without closing
UD_ExceptCloseAfterTry ==
    /\ pc = "ud_except"
    /\ IF field_name = Unbound
       THEN exc' = "UnboundLocalError" /\ logs' = logs
            /\ outcome' = "raised" /\ pc' = "done"
       ELSE exc' = NoExc /\ logs' = Append(logs, "An error occurred while inserting field")
            /\ outcome' = outcome /\ pc' = "ud_finally"
    /\ UNCHANGED <<op, extracted_values, d, f, field_name, calls, rows, closeCount,
                   tryExc, outstanding, history, exVars>>

\* lines 51-52: the handler formats field_name into its message; with
\* field_name still unbound the f-string raises UnboundLocalError, and the
\* finally clause runs with that exception pending
UD_Except ==
    /\ pc = "ud_except"
    /\ IF field_name = Unbound
       THEN exc' = "UnboundLocalError" /\ logs' = logs
       ELSE exc' = NoExc /\ logs' = Append(logs, "An error occurred while inserting field")
    /\ pc' = "ud_finally"
    /\ UNCHANGED <<op, extracted_values, d, f, field_name, calls, rows, closeCount,
                   tryExc, outcome, outstanding, history, exVars>>

\* line 54: database.close() is awaited
UD_CloseStart ==
    /\ pc = "ud_finally"
    /\ closeCount' = closeCount + 1
    /\ outstanding' = Append(outstanding, "close")
    /\ history' = Append(history, <<"start", "close">>)
    /\ pc' = "ud_await_close"
    /\ UNCHANGED <<op, extracted_values, d, f, field_name, calls, rows,
                   logs, tryExc, exc, outcome, exVars>>

\* line 54: close() returns; a pending exception is re-raised to the caller
UD_CloseReturn ==
    /\ pc = "ud_await_close"
    /\ outstanding' = SubSeq(outstanding, 1, Len(outstanding) - 1)
    /\ history' = Append(history, <<"return", "close">>)
    /\ outcome' = (IF exc # NoExc THEN "raised" ELSE "returned")
    /\ pc' = "done"
    /\ UNCHANGED <<op, udVars, exc, exVars>>

\* line 54: close() itself raises
UD_CloseRaise ==
    /\ pc = "ud_await_close"
    /\ outstanding' = SubSeq(outstanding, 1, Len(outstanding) - 1)
    /\ history' = Append(history, <<"raise", "close">>)
    /\ exc' = "CloseError"
    /\ outcome' = "raised"
    /\ pc' = "done"
    /\ UNCHANGED <<op, udVars, exVars>>

(***************************************************************************)
(* extract: the responses the service may answer with.                     *)
(***************************************************************************)
\* line 120 and line 142: the names that select the person and array branches
PersonFieldNames == <<"Employee", "Employer", "Borrower", "Lender", "Payer", "Recipient">>
ArrayFieldNames == <<"AdditionalInfo", "StateTaxInfos", "LocalTaxInfos", "StateTaxesWithheld">>
\* names of fields that take the plain branch
PlainFieldNames == <<"WagesTipsAndOtherCompensation", "FederalIncomeTaxWithheld",
                     "SocialSecurityWages", "TaxYear">>

AddressValue ==
    DictV(<< <<"house_number", StrV("1")>>, <<"road", StrV("Main St")>>,
             <<"city", StrV("Miami")>>, <<"state", StrV("FL")>>,
             <<"postal_code", None>> >>)

\* plain fields: both typed keys present; only valueNumber, and it is 0; an
\* empty valueString beside a 'value' key
PlainShapes ==
    { DictV(<< <<"valueString", StrV("a")>>, <<"valueNumber", IntV(1)>>, <<"confidence", IntV(90)>> >>),
      DictV(<< <<"valueNumber", IntV(0)>>, <<"confidence", IntV(80)>> >>),
      DictV(<< <<"valueString", StrV("")>>, <<"value", StrV("v")>>, <<"confidence", IntV(70)>> >>) }

\* person fields: a name and an address; a sub-field whose valueNumber is 0;
\* a field named as a person that carries no valueObject
PersonShapes ==
    { DictV(<< <<"valueObject",
                 DictV(<< <<"Name", DictV(<< <<"valueString", StrV("a")>>, <<"confidence", IntV(90)>> >>)>>,
                          <<"Address", DictV(<< <<"valueAddress", AddressValue>>, <<"confidence", IntV(60)>> >>)>> >>)>> >>),
      DictV(<< <<"valueObject",
                 DictV(<< <<"SocialSecurityNumber", DictV(<< <<"valueNumber", IntV(0)>>, <<"confidence", IntV(50)>> >>)>> >>)>> >>),
      DictV(<< <<"confidence", IntV(40)>> >>) }

\* array fields: one item with a valueObject and one without; no valueArray
ArrayShapes ==
    { DictV(<< <<"valueArray",
                 ListV(<< DictV(<< <<"valueObject",
                                     DictV(<< <<"Amount", DictV(<< <<"valueNumber", IntV(1)>>, <<"confidence", IntV(30)>> >>)>> >>)>> >>),
                          DictV(<<>>) >>)>> >>),
      DictV(<< <<"confidence", IntV(20)>> >>) }

NamedShapes ==
    {<<"plain", s>> : s \in PlainShapes} \cup {<<"person", s>> : s \in PersonShapes}
        \cup {<<"array", s>> : s \in ArrayShapes}

\* the field at position k of a document takes the k-th name of its kind, so
\* the keys of result.fields are distinct
NameOf(kind, k) ==
    CASE kind = "plain"  -> PlainFieldNames[k]
      [] kind = "person" -> PersonFieldNames[k]
      [] OTHER           -> ArrayFieldNames[k]

DocumentsOfLen(n) ==
    {DictV([k \in 1..n |-> <<NameOf(s[k][1], k), s[k][2]>>]) : s \in [1..n -> NamedShapes]}

RECURSIVE DocLists(_, _)
DocLists(k, budget) ==
    IF k = 0 THEN {<<>>}
    ELSE UNION {{<<e>> \o rest : e \in DocumentsOfLen(n), rest \in DocLists(k - 1, budget - n)}
                : n \in 0..budget}

\* result.documents is a list, or None when the model recognised nothing
Results ==
    {[hasDocuments |-> FALSE, documents |-> <<>>]}
        \cup {[hasDocuments |-> TRUE, documents |-> xs]
              : xs \in UNION {DocLists(k, MaxFields) : k \in 0..MaxDocuments}}

FormTypes == {"W2", "K1-1065"}

(***************************************************************************)
(* extract: lines 89-113 and 116-152, the flattening of one document.      *)
(***************************************************************************)
\* the {'value': ..., 'confidence': ...} record
ValueConfidence(value, confidence) ==
    DictV(<< <<"value", value>>, <<"confidence", confidence>> >>)

\* line 101 and line 134
FieldValue(field) ==
    PyOr(PyOr(Get(field, "valueString"), Get(field, "valueNumber")), Get(field, "value"))

\* lines 99-103: the single entry {prefix: {value, confidence}}
ExtractFieldInfoDropConfidence(field, prefix) ==
    <<prefix, DictV(<< <<"value", FieldValue(field)>> >>)>>
ExtractFieldInfo(field, prefix) ==
    <<prefix, ValueConfidence(FieldValue(field), Get(field, "confidence"))>>

\* lines 89-97: the five components, in the order of the dictionary literal
AddressComponents == <<"house_number", "road", "city", "state", "postal_code">>

\* lines 110-112: the entries of one array item are added to array_info
RECURSIVE ItemEntries(_, _, _, _)
ItemEntries(okv, n, item_prefix, acc) ==
    IF n > Len(okv) THEN acc
    ELSE LET e == ExtractFieldInfo(okv[n][2], item_prefix \o "_" \o okv[n][1])
         IN  ItemEntries(okv, n + 1, item_prefix, SetItem(acc, e[1], e[2]))

\* lines 105-113
RECURSIVE ExtractArrayInfo(_, _, _, _)
ExtractArrayInfo(array, n, prefix, acc) ==
    IF n > Len(array) THEN acc
    ELSE LET obj == IF Has(array[n], "valueObject")
                    THEN Item(array[n], "valueObject") ELSE DictV(<<>>)
         IN  ExtractArrayInfo(array, n + 1, prefix,
                              ItemEntries(obj.kv, 1, prefix \o "_" \o IntStr(n), acc))

\* lines 126-131
RECURSIVE AddressEntries(_, _, _, _, _)
AddressEntries(address_value, confidence, n, field, acc) ==
    IF n > Len(AddressComponents) THEN acc
    ELSE AddressEntries(address_value, confidence, n + 1, field,
            SetItem(acc, field \o "_Address_" \o AddressComponents[n],
                    ValueConfidence(Get(address_value, AddressComponents[n]), confidence)))

\* lines 123-139: the sub-fields of one person; raised when an Address has no
\* valueAddress to read the components from
RECURSIVE PersonEntries(_, _, _, _)
PersonEntries(pkv, n, field, acc) ==
    IF n > Len(pkv) THEN [raised |-> NoExc, dict |-> acc]
    ELSE IF pkv[n][1] = "Address"
    THEN IF ~IsDict(Get(pkv[n][2], "valueAddress"))
         THEN [raised |-> "AttributeError", dict |-> acc]
         ELSE PersonEntries(pkv, n + 1, field,
                  AddressEntries(Get(pkv[n][2], "valueAddress"),
                                 Get(pkv[n][2], "confidence"), 1, field, acc))
    ELSE PersonEntries(pkv, n + 1, field,
             SetItem(acc, field \o "_" \o pkv[n][1],
                     ValueConfidence(FieldValue(pkv[n][2]), Get(pkv[n][2], "confidence"))))

InSeq(x, xs) == \E n \in 1..Len(xs) : xs[n] = x

\* lines 119-150: the fields of one document, in order
RECURSIVE ProcessFields(_, _, _)
ProcessFields(fkv, n, acc) ==
    IF n > Len(fkv) THEN [raised |-> NoExc, dict |-> acc]
    ELSE IF InSeq(fkv[n][1], PersonFieldNames)
    THEN IF ~IsDict(Get(fkv[n][2], "valueObject"))
         \* line 123: person_data is None
         THEN [raised |-> "AttributeError", dict |-> acc]
         ELSE LET r == PersonEntries(Get(fkv[n][2], "valueObject").kv, 1, fkv[n][1], acc)
              IN  IF r.raised # NoExc THEN r ELSE ProcessFields(fkv, n + 1, r.dict)
    ELSE IF InSeq(fkv[n][1], ArrayFieldNames)
    THEN LET array == IF Has(fkv[n][2], "valueArray")
                      THEN Item(fkv[n][2], "valueArray").items ELSE <<>>
         IN  ProcessFields(fkv, n + 1, ExtractArrayInfo(array, 1, fkv[n][1], acc))
    ELSE LET e == ExtractFieldInfo(fkv[n][2], fkv[n][1])
         IN  ProcessFields(fkv, n + 1, SetItem(acc, e[1], e[2]))

\* lines 118-152: w2_dict of one document
ProcessDocument(doc) == ProcessFields(doc.kv, 1, <<>>)

(***************************************************************************)
(* extract: lines 66-156.                                                  *)
(***************************************************************************)
\* lines 56-64 and line 67
Ex_GetClient ==
    /\ op = "extract" /\ pc = "ex_start"
    /\ client' = (IF form_type # "K1-1065" THEN "prebuilt" ELSE "custom")
    /\ pc' = "ex_enter"
    /\ UNCHANGED <<op, udVars, exc, outcome, outstanding, history, form_type,
                   result, enterCount, exitCount, idx, response_list, returned>>

\* line 82: the client's __aenter__
Ex_Enter ==
    /\ pc = "ex_enter"
    /\ enterCount' = enterCount + 1
    /\ pc' = "ex_begin"
    /\ UNCHANGED <<op, udVars, exc, outcome, outstanding, history, form_type,
                   client, result, exitCount, idx, response_list, returned>>

\* line 82: __aenter__ raises; the body and __aexit__ do not run
Ex_EnterRaise ==
    /\ pc = "ex_enter"
    /\ exc' = "EnterError"
    /\ outcome' = "raised"
    /\ pc' = "done"
    /\ UNCHANGED <<op, udVars, outstanding, history, exVars>>

\* lines 83-86: begin_analyze_document is awaited
Ex_BeginStart ==
    /\ pc = "ex_begin"
    /\ outstanding' = Append(outstanding, "begin_analyze_document")
    /\ history' = Append(history, <<"start", "begin_analyze_document">>)
    /\ pc' = "ex_await_begin"
    /\ UNCHANGED <<op, udVars, exc, outcome, exVars>>

Ex_BeginReturn ==
    /\ pc = "ex_await_begin"
    /\ outstanding' = SubSeq(outstanding, 1, Len(outstanding) - 1)
    /\ history' = Append(history, <<"return", "begin_analyze_document">>)
    /\ pc' = "ex_result"
    /\ UNCHANGED <<op, udVars, exc, outcome, exVars>>

Ex_BeginRaise ==
    /\ pc = "ex_await_begin"
    /\ outstanding' = SubSeq(outstanding, 1, Len(outstanding) - 1)
    /\ history' = Append(history, <<"raise", "begin_analyze_document">>)
    /\ exc' = "ServiceError"
    /\ pc' = "ex_exit"
    /\ UNCHANGED <<op, udVars, outcome, exVars>>

\* line 87: poller.result() is awaited
Ex_ResultStart ==
    /\ pc = "ex_result"
    /\ outstanding' = Append(outstanding, "poller.result")
    /\ history' = Append(history, <<"start", "poller.result">>)
    /\ pc' = "ex_await_result"
    /\ UNCHANGED <<op, udVars, exc, outcome, exVars>>

\* line 87: the service answers
Ex_ResultReturn ==
    /\ pc = "ex_await_result"
    /\ \E r \in Results : result' = r
    /\ outstanding' = SubSeq(outstanding, 1, Len(outstanding) - 1)
    /\ history' = Append(history, <<"return", "poller.result">>)
    /\ pc' = "ex_exit"
    /\ UNCHANGED <<op, udVars, exc, outcome, form_type, client,
                   enterCount, exitCount, idx, response_list, returned>>

Ex_ResultRaise ==
    /\ pc = "ex_await_result"
    /\ outstanding' = SubSeq(outstanding, 1, Len(outstanding) - 1)
    /\ history' = Append(history, <<"raise", "poller.result">>)
    /\ exc' = "ServiceError"
    /\ pc' = "ex_exit"
    /\ UNCHANGED <<op, udVars, outcome, exVars>>

\* line 82, leaving the async with block: __aexit__ runs, and an exception of
\* the body goes on to the caller
Ex_ExitOnSuccessOnly ==
    /\ pc = "ex_exit"
    /\ exitCount' = (IF exc # NoExc THEN exitCount ELSE exitCount + 1)
    /\ IF exc # NoExc
       THEN outcome' = "raised" /\ pc' = "done"
       ELSE outcome' = outcome /\ pc' = "ex_process"
    /\ UNCHANGED <<op, udVars, exc, outstanding, history, form_type, client,
                   result, enterCount, idx, response_list, returned>>
Ex_Exit ==
    /\ pc = "ex_exit"
    /\ exitCount' = exitCount + 1
    /\ IF exc # NoExc
       THEN outcome' = "raised" /\ pc' = "done"
       ELSE outcome' = outcome /\ pc' = "ex_process"
    /\ UNCHANGED <<op, udVars, exc, outstanding, history, form_type, client,
                   result, enterCount, idx, response_list, returned>>

\* lines 116-152: one iteration of the loop over result.documents
Ex_ProcessDoc ==
    /\ pc = "ex_process" /\ result.hasDocuments /\ idx < Len(result.documents)
    /\ ProcessDocument(result.documents[idx + 1]).raised = NoExc
    /\ response_list' = Append(response_list, DictV(ProcessDocument(result.documents[idx + 1]).dict))
    /\ idx' = idx + 1
    /\ UNCHANGED <<op, pc, udVars, exc, outcome, outstanding, history, form_type,
                   client, result, enterCount, exitCount, returned>>

\* line 116 with result.documents None, or lines 123-125 on a malformed field
Ex_ProcessRaise ==
    /\ pc = "ex_process"
    /\ \/ ~result.hasDocuments /\ exc' = "TypeError"
       \/ /\ result.hasDocuments /\ idx < Len(result.documents)
          /\ ProcessDocument(result.documents[idx + 1]).raised # NoExc
          /\ exc' = ProcessDocument(result.documents[idx + 1]).raised
    /\ outcome' = "raised"
    /\ pc' = "done"
    /\ UNCHANGED <<op, udVars, outstanding, history, exVars>>

\* line 156
Ex_Return ==
    /\ pc = "ex_process" /\ result.hasDocuments /\ idx = Len(result.documents)
    /\ returned' = [response_list |-> response_list]
    /\ outcome' = "returned"
    /\ pc' = "done"
    /\ UNCHANGED <<op, udVars, exc, outstanding, history, form_type, client,
                   result, enterCount, exitCount, idx, response_list>>

InitEx ==
    /\ op = "extract" /\ pc = "ex_start"
    /\ extracted_values = None
    /\ d = 1 /\ f = 1 /\ field_name = Unbound
    /\ calls = <<>> /\ rows = <<>> /\ closeCount = 0 /\ logs = <<>>
    /\ tryExc = NoExc /\ exc = NoExc /\ outcome = "running"
    /\ outstanding = <<>> /\ history = <<>>
    /\ form_type \in FormTypes /\ client = "none"
    /\ result = [hasDocuments |-> FALSE, documents |-> <<>>]
    /\ enterCount = 0 /\ exitCount = 0 /\ idx = 0
    /\ response_list = <<>> /\ returned = NoReturn

InitUD ==
    /\ op = "update_database" /\ pc = "ud_start"
    /\ extracted_values \in ExtractedValuesInputs
    /\ d = 1 /\ f = 1 /\ field_name = Unbound
    /\ calls = <<>> /\ rows = <<>> /\ closeCount = 0 /\ logs = <<>>
    /\ tryExc = NoExc /\ exc = NoExc /\ outcome = "running"
    /\ outstanding = <<>> /\ history = <<>>
    /\ form_type = Args.form_type /\ client = "none"
    /\ result = [hasDocuments |-> FALSE, documents |-> <<>>]
    /\ enterCount = 0 /\ exitCount = 0 /\ idx = 0
    /\ response_list = <<>> /\ returned = NoReturn

Init == InitUD \/ InitEx

Next ==
    \/ UD_Construct
    \/ UD_NextDoc
    \/ UD_LoopEnd
    \/ UD_IterRaise
    \/ UD_FieldRaise
    \/ UD_InsertStart
    \/ UD_InsertReturn
    \/ UD_InsertRaise
    \/ UD_Except
    \/ UD_CloseStart
    \/ UD_CloseReturn
    \/ UD_CloseRaise
    \/ Ex_GetClient
    \/ Ex_Enter
    \/ Ex_EnterRaise
    \/ Ex_BeginStart
    \/ Ex_BeginReturn
    \/ Ex_BeginRaise
    \/ Ex_ResultStart
    \/ Ex_ResultReturn
    \/ Ex_ResultRaise
    \/ Ex_Exit
    \/ Ex_ProcessDoc
    \/ Ex_ProcessRaise
    \/ Ex_Return

Spec == Init /\ [][Next]_vars

(***************************************************************************)
(* Properties of update_database.                                          *)
(***************************************************************************)
\* the (field_name, field_data) entries of extracted_values in iteration order
RECURSIVE Flatten(_)
Flatten(items) ==
    IF Len(items) = 0 THEN <<>>
    ELSE (IF IsDict(items[1]) THEN items[1].kv ELSE <<>>) \o Flatten(Tail(items))
AllEntries == IF IsList(extracted_values) THEN Flatten(extracted_values.items) ELSE <<>>
\* position, among all entries, of the entry the loops stand at
CurrentIndex ==
    (IF IsList(extracted_values)
     THEN Len(Flatten(SubSeq(extracted_values.items, 1, d - 1))) ELSE 0) + f
\* call number k is the insert of entry number k
CallMatchesEntry(k) ==
    /\ calls[k].field_name = AllEntries[k][1]
    /\ calls[k].confidence =
           (IF IsDict(AllEntries[k][2]) THEN Get(AllEntries[k][2], "confidence") ELSE None)

\* C1: once the Database object exists, database.close() is awaited exactly
\* once before update_database ends, on every path (success, empty input, a
\* raising insert or field access, a raising except handler), and never
\* before the try statement is left.
C1_CloseAwaitedExactlyOnce ==
    (op = "update_database" /\ pc # "ud_start") =>
        /\ closeCount <= 1
        /\ pc = "done" => closeCount = 1
        /\ pc \in {"ud_loop", "ud_await_insert", "ud_except", "ud_finally"} => closeCount = 0
C1_Witness ==
    /\ op = "update_database" /\ pc = "done"
    /\ exc = "UnboundLocalError" /\ closeCount = 1

\* C2: whatever is raised inside the try block is caught and logged, and
\* update_database returns normally: no exception reaches the caller.
C2_NoExceptionReachesCaller ==
    (/\ op = "update_database" /\ pc = "done" /\ IsList(extracted_values)
     /\ tryExc # NoExc /\ exc # "CloseError") =>
        /\ outcome = "returned"
        /\ InSeq("An error occurred while inserting field", logs)

\* C3: when nothing raises, there is exactly one post2postgres_extract call
\* per entry, in iteration order, each completed, each with doc_status
\* 'extracted' and the caller's client_id, doc_name, form_type and access_id.
C3_OneInsertPerEntry ==
    (op = "update_database" /\ pc = "done" /\ tryExc = NoExc /\ exc = NoExc) =>
        /\ Len(calls) = Len(AllEntries)
        /\ rows = calls
        /\ \A k \in 1..Len(calls) :
            /\ CallMatchesEntry(k)
            /\ calls[k].doc_status = "extracted"
            /\ calls[k].client_id = Args.client_id
            /\ calls[k].doc_name = Args.doc_name
            /\ calls[k].doc_type = Args.form_type
            /\ calls[k].access_id = Args.access_id
C3_Witness ==
    /\ op = "update_database" /\ pc = "done" /\ tryExc = NoExc /\ exc = NoExc
    /\ Len(extracted_values.items) = 2
    /\ Len(extracted_values.items[1].kv) = 2
    /\ Len(calls) = 3

\* C4: no retry and no recovery: the calls issued are the inserts of a prefix
\* of the entries, each issued once; at most the last of them has not
\* returned; and once a step has raised, no further call is issued and the
\* rows written are those of the entries before the failing one.
C4_NoRetryPrefixOnly ==
    op = "update_database" =>
        /\ Len(calls) <= Len(AllEntries)
        /\ \A k \in 1..Len(calls) : CallMatchesEntry(k)
        /\ Len(rows) <= Len(calls) /\ Len(calls) <= Len(rows) + 1
        /\ rows = SubSeq(calls, 1, Len(rows))
        /\ tryExc # NoExc => (Len(rows) = CurrentIndex - 1 /\ Len(calls) <= CurrentIndex)
C4_Witness ==
    /\ op = "update_database" /\ pc = "done" /\ tryExc = "DatabaseError"
    /\ Len(rows) = 1 /\ Len(calls) = 2 /\ Len(AllEntries) = 3

\* C8: a field whose source value is a list is written as its JSON
\* serialization, not as its str() form.
C8_ListValueWrittenAsJson ==
    op = "update_database" =>
        \A k \in 1..Len(calls) :
            (/\ IsDict(AllEntries[k][2])
             /\ Has(AllEntries[k][2], "value")
             /\ IsList(Item(AllEntries[k][2], "value")))
            => calls[k].field_value = StrV(JsonDumps(Item(AllEntries[k][2], "value")))

(***************************************************************************)
(* Properties of the awaited calls of both coroutines.                     *)
(***************************************************************************)
\* C5: at most one external call is outstanding at any time: no call is
\* started while another has not completed (insert after insert, close after
\* the inserts), and poller.result() is started only once
\* begin_analyze_document has returned.
C5_SingleOutstandingCall ==
    /\ Len(outstanding) <= 1
    /\ \A n \in 2..Len(history) :
        history[n][1] = "start" => history[n - 1][1] # "start"
    /\ \A n \in 1..Len(history) :
        history[n] = <<"start", "poller.result">> =>
            (n > 1 /\ history[n - 1] = <<"return", "begin_analyze_document">>)
C5_Witness ==
    /\ op = "update_database" /\ outstanding = <<"close">>
    /\ Len(rows) = 2 /\ tryExc = NoExc

(***************************************************************************)
(* Properties of extract.                                                  *)
(***************************************************************************)
PlainNamesOf(doc) ==
    {doc.kv[n][1] : n \in {m \in 1..Len(doc.kv) : InSeq(doc.kv[m][1], PlainFieldNames)}}
PlainNamesIn(dict) ==
    {k \in Keys(dict.kv) : InSeq(k, PlainFieldNames)}

\* C6: when extract returns, response_list holds one dictionary per document
\* of the response, in the same order, and every entry of every dictionary is
\* a record with exactly the keys 'value' and 'confidence'; no documents, an
\* empty list.
C6_ResponseListShape ==
    (op = "extract" /\ outcome = "returned") =>
        /\ Len(returned.response_list) = Len(result.documents)
        /\ \A i \in 1..Len(returned.response_list) :
            /\ IsDict(returned.response_list[i])
            /\ PlainNamesIn(returned.response_list[i]) = PlainNamesOf(result.documents[i])
            /\ \A n \in 1..Len(returned.response_list[i].kv) :
                /\ IsDict(returned.response_list[i].kv[n][2])
                /\ Len(returned.response_list[i].kv[n][2].kv) = 2
                /\ Keys(returned.response_list[i].kv[n][2].kv) = {"value", "confidence"}
C6_Witness ==
    /\ op = "extract" /\ outcome = "returned"
    /\ Len(returned.response_list) = 2
    /\ "Employee_Address_city" \in Keys(returned.response_list[1].kv)
    /\ "AdditionalInfo_1_Amount" \in Keys(returned.response_list[2].kv)

\* C7: the client is entered before begin_analyze_document is called and is
\* exited exactly once: not while the two calls of the block are under way,
\* before any document is processed, and also when one of the two calls
\* raises, and then the exception reaches the caller and nothing is returned.
C7_ClientExitedExactlyOnce ==
    op = "extract" =>
        /\ enterCount <= 1 /\ exitCount <= enterCount
        /\ Len(history) > 0 => enterCount = 1
        /\ pc \in {"ex_begin", "ex_await_begin", "ex_result", "ex_await_result", "ex_exit"}
               => exitCount = 0
        /\ (pc = "ex_process" \/ idx > 0 \/ Len(response_list) > 0) => exitCount = 1
        /\ (pc = "done" /\ enterCount = 1) => exitCount = 1
        /\ (pc = "done" /\ \E n \in 1..Len(history) : history[n][1] = "raise")
               => (outcome = "raised" /\ exc = "ServiceError" /\ returned = NoReturn)
C7_Witness ==
    /\ op = "extract" /\ pc = "done" /\ Len(history) > 0
    /\ history[Len(history)] = <<"raise", "poller.result">>
    /\ exitCount = 1 /\ outcome = "raised"

\* the value chosen by the presence of the keys
ValueByPresence(field) ==
    IF Has(field, "valueString") THEN Item(field, "valueString")
    ELSE IF Has(field, "valueNumber") THEN Item(field, "valueNumber")
    ELSE Get(field, "value")

\* C9: the recorded 'value' of a plain field or a person sub-field is its
\* valueString when that key is present, otherwise its valueNumber when that
\* key is present, otherwise its 'value'; a valueNumber of 0 or a valueString
\* of "" is recorded as such.
C9_ValueByKeyPresence ==
    (op = "extract" /\ outcome = "returned") =>
        \A i \in 1..Len(result.documents) :
            \A n \in 1..Len(result.documents[i].kv) :
                LET name == result.documents[i].kv[n][1]
                    field == result.documents[i].kv[n][2]
                    w2_dict == returned.response_list[i]
                IN  /\ InSeq(name, PlainFieldNames) =>
                        Item(Item(w2_dict, name), "value") = ValueByPresence(field)
                    /\ InSeq(name, PersonFieldNames) =>
                        \A m \in 1..Len(Item(field, "valueObject").kv) :
                            LET sub == Item(field, "valueObject").kv[m]
                            IN  sub[1] # "Address" =>
                                    Item(Item(w2_dict, name \o "_" \o sub[1]), "value")
                                        = ValueByPresence(sub[2])

====
